---------------------------- MODULE Spec2Model ----------------------------
(***************************************************************************)
(* Model of release.sh, the release orchestrator of the repository: a bash *)
(* script run under `set -e` that checks its prerequisites, builds the     *)
(* frontend and backend container images, logs in to the registry, tags    *)
(* and pushes the images and finally removes the local images.             *)
(*                                                                         *)
(* One run of the script is one pass of pc from "dispatch" to "done".  The *)
(* files frontend/.env.local and frontend/.env.local.backup outlive a run, *)
(* so the model chains runs: NextRun starts the script again on the files  *)
(* the previous run left, after the operator may have edited .env.local.   *)
(*                                                                         *)
(* External tools (docker, aws) are opaque: every invocation ends with an  *)
(* exit status chosen nondeterministically.  File system commands (cd, cp, *)
(* mv, test -f) and echo are taken to succeed.                             *)
(***************************************************************************)
EXTENDS Integers, Sequences, FiniteSets, TLC

(***************************************************************************)
(* Bounds of the model.                                                    *)
(***************************************************************************)
MaxRuns == 2        \* number of chained runs of the script
MaxArgLen == 2      \* longest first argument drawn from ArgChars
NumContents == 2    \* distinct contents a file can have

(***************************************************************************)
(* Configuration, release.sh lines 5-9.                                    *)
(***************************************************************************)
FRONTEND_IMAGE_NAME == "agents/frontend"
BACKEND_IMAGE_NAME == "agents/backend"
IMAGE_TAG == "latest"
ECR_URL == "654553612832.dkr.ecr.eu-central-1.amazonaws.com"
AWS_REGION == "eu-central-1"

\* "$NAME:$IMAGE_TAG", the local image reference (lines 89, 97, 118, 126, 138, 139)
LocalRef(name) == name \o ":" \o IMAGE_TAG

\* variant of RemoteRef: the reference without its tag
RemoteRef_NoTag(name) == ECR_URL \o "/" \o name

\* "$ECR_URL/$NAME:$IMAGE_TAG", the remote reference (lines 97, 98, 126, 127, 140, 141)
RemoteRef(name) == ECR_URL \o "/" \o name \o ":" \o IMAGE_TAG

(***************************************************************************)
(* Text.  A text is a sequence of tokens: a token is one character of an   *)
(* argument, or a chunk of literal script text that holds no backslash.    *)
(* BS is the backslash character.                                          *)
(***************************************************************************)
BS == "\\"

\* Colors for output, lines 12-16: '\033[0;31m' and so on, single-quoted,
\* hence a backslash, the octal digits and the rest of the sequence.
RED == <<BS, "033", "[0;31m">>
GREEN == <<BS, "033", "[0;32m">>
YELLOW == <<BS, "033", "[1;33m">>
BLUE == <<BS, "033", "[0;34m">>
NC == <<BS, "033", "[0m">>

\* bash builtin `echo -e` from position i of s: backslash escapes are
\* interpreted (\c stops all output, the final newline included; \n is a
\* newline; \\ a backslash; \033 the ESC character); a backslash that starts
\* no escape is printed as it is.  The escapes listed are those the
\* characters of the model can form.
RECURSIVE EchoFrom(_, _)
EchoFrom(s, i) ==
    IF i > Len(s) THEN <<"LF">>
    ELSE IF s[i] = BS /\ i < Len(s) /\ s[i+1] = "c" THEN <<>>
    ELSE IF s[i] = BS /\ i < Len(s) /\ s[i+1] = "n" THEN <<"LF">> \o EchoFrom(s, i+2)
    ELSE IF s[i] = BS /\ i < Len(s) /\ s[i+1] = BS THEN <<BS>> \o EchoFrom(s, i+2)
    ELSE IF s[i] = BS /\ i < Len(s) /\ s[i+1] = "033" THEN <<"ESC">> \o EchoFrom(s, i+2)
    ELSE <<s[i]>> \o EchoFrom(s, i+1)

EchoE(s) == EchoFrom(s, 1)

\* plain `echo`: no escape is interpreted (xpg_echo is off by default)
Echo(s) == s \o <<"LF">>

\* print_status, print_success, print_warning, print_error, lines 19-33
print_status(msg) == EchoE(BLUE \o <<"[INFO]">> \o NC \o <<" ">> \o msg)
print_success(msg) == EchoE(GREEN \o <<"[SUCCESS]">> \o NC \o <<" ">> \o msg)
print_warning(msg) == EchoE(YELLOW \o <<"[WARNING]">> \o NC \o <<" ">> \o msg)
print_error(msg) == EchoE(RED \o <<"[ERROR]">> \o NC \o <<" ">> \o msg)

\* t occurs in s as a contiguous piece
Contains(s, t) ==
    \E i \in 1..(Len(s) - Len(t) + 1) : SubSeq(s, i, i + Len(t) - 1) = t

(***************************************************************************)
(* Arguments.  The options the script knows, character by character, and   *)
(* the other first arguments the model draws: every string of at most      *)
(* MaxArgLen characters of ArgChars, and "--bogus".                        *)
(***************************************************************************)
NoArg == <<>>
FrontendOnly == <<"-","-","f","r","o","n","t","e","n","d","-","o","n","l","y">>
BackendOnly == <<"-","-","b","a","c","k","e","n","d","-","o","n","l","y">>
HelpLong == <<"-","-","h","e","l","p">>
HelpShort == <<"-","h">>
Bogus == <<"-","-","b","o","g","u","s">>

ArgChars == {"-", "h", "n", "c", BS}

ShortArgs == UNION {[1..n -> ArgChars] : n \in 1..MaxArgLen}

Args == {NoArg, FrontendOnly, BackendOnly, HelpLong, HelpShort, Bogus} \cup ShortArgs

ReleaseArgs == {NoArg, FrontendOnly, BackendOnly}

(***************************************************************************)
(* Files, tools and exit statuses.                                         *)
(***************************************************************************)
Absent == 0
Contents == 1..NumContents
FileStates == {Absent} \cup Contents

Tools == {"docker", "aws", "pnpm"}

\* exit statuses of the external commands: 0, or a failure status
DockerStatuses == {0, 1, 125}
AwsStatuses == {0, 255}
RmiStatuses == {0, 1}

VARIABLES
    pc,           \* position of the script
    arg,          \* "${1:-}", the first argument
    tools,        \* the commands `command -v` finds
    cwd,          \* working directory: "root", "frontend" or "backend"
    envLocal,     \* frontend/.env.local: Absent or its content
    envBackup,    \* frontend/.env.local.backup: Absent or its content
    calls,        \* the commands of this run that act outside the shell
    out,          \* the lines this run has printed
    exitCode,     \* exit status of this run, -1 while it is running
    run,          \* number of this run
    startEnv,     \* envLocal when this run started
    startBackup   \* envBackup when this run started

vars == <<pc, arg, tools, cwd, envLocal, envBackup, calls, out, exitCode,
          run, startEnv, startBackup>>

Call(cmd, comp, args, st) == [cmd |-> cmd, comp |-> comp, args |-> args, status |-> st]

Init ==
    /\ pc = "dispatch"
    /\ arg \in Args
    /\ tools \in SUBSET Tools
    /\ cwd = "root"
    /\ envLocal \in FileStates
    /\ envBackup = Absent
    /\ calls = <<>>
    /\ out = <<>>
    /\ exitCode = -1
    /\ run = 1
    /\ startEnv = envLocal
    /\ startBackup = envBackup

\* `exit n`, and the exit `set -e` (line 2) makes when a command fails
Exit(n) ==
    /\ pc' = "done"
    /\ exitCode' = n

files == <<envLocal, envBackup>>
env == <<arg, tools, run, startEnv, startBackup>>

(***************************************************************************)
(* case "${1:-}" in ... esac, lines 178-212.                               *)
(***************************************************************************)
UsageText ==
    << Echo(<<"Usage: ", "$0", " [OPTION]">>),
       Echo(<<>>),
       Echo(<<"Options:">>),
       Echo(<<"  --frontend-only    Build and upload only the frontend image">>),
       Echo(<<"  --backend-only     Build and upload only the backend image">>),
       Echo(<<"  --help, -h         Show this help message">>),
       Echo(<<>>),
       Echo(<<"Default behavior: Build and upload both frontend and backend images">>) >>

\* variant of IsHelp: the pattern without its -h alternative
IsHelp_LongOnly(a) == a = HelpLong

\* the pattern --help|-h, line 193
IsHelp(a) == a = HelpLong \/ a = HelpShort

Dispatch ==
    /\ pc = "dispatch"
    /\ IF arg = FrontendOnly THEN
            /\ out' = out \o <<print_status(<<"Building and uploading frontend only...">>)>>
            /\ pc' = "check_prerequisites"
            /\ UNCHANGED exitCode
       ELSE IF arg = BackendOnly THEN
            /\ out' = out \o <<print_status(<<"Building and uploading backend only...">>)>>
            /\ pc' = "check_prerequisites"
            /\ UNCHANGED exitCode
       ELSE IF IsHelp(arg) THEN
            /\ out' = out \o UsageText
            /\ Exit(0)
       ELSE IF arg = NoArg THEN
            \* main, line 156
            /\ out' = out \o <<print_status(<<"Starting image upload process...">>)>>
            /\ pc' = "check_prerequisites"
            /\ UNCHANGED exitCode
       ELSE
            /\ out' = out \o <<print_error(<<"Unknown option: ">> \o arg),
                               Echo(<<"Use --help for usage information">>)>>
            /\ Exit(1)
    /\ UNCHANGED <<cwd, calls>>
    /\ UNCHANGED files
    /\ UNCHANGED env

(***************************************************************************)
(* check_prerequisites, lines 41-59.                                       *)
(***************************************************************************)
\* command_exists, lines 36-38
command_exists(t, ts) == t \in ts

\* where the caller of check_prerequisites goes on: lines 162, 182, 189
AfterPrerequisites(a) ==
    IF a = FrontendOnly THEN "fe_enter"
    ELSE IF a = BackendOnly THEN "be_enter"
    ELSE "display_image_info"

\* variant of FatalMissingTool: a missing pnpm is an error too
FatalMissingTool_Pnpm(ts) ==
    IF ~command_exists("docker", ts) THEN <<"Docker is not installed or not in PATH">>
    ELSE IF ~command_exists("aws", ts) THEN <<"AWS CLI is not installed or not in PATH">>
    ELSE IF ~command_exists("pnpm", ts) THEN <<"pnpm not found">>
    ELSE <<>>

\* variant of FatalMissingTool: the check without its aws test
FatalMissingTool_DockerOnly(ts) ==
    IF ~command_exists("docker", ts) THEN <<"Docker is not installed or not in PATH">>
    ELSE <<>>

\* the error of the first missing tool that is fatal (lines 44-52), <<>> if
\* docker and aws are both there
FatalMissingTool(ts) ==
    IF ~command_exists("docker", ts) THEN <<"Docker is not installed or not in PATH">>
    ELSE IF ~command_exists("aws", ts) THEN <<"AWS CLI is not installed or not in PATH">>
    ELSE <<>>

check_prerequisites ==
    /\ pc = "check_prerequisites"
    /\ LET o1 == out \o <<print_status(<<"Checking prerequisites...">>)>>
       IN IF FatalMissingTool(tools) # <<>> THEN
               /\ out' = o1 \o <<print_error(FatalMissingTool(tools))>>
               /\ Exit(1)
          ELSE
               /\ out' = o1
                         \o (IF ~command_exists("pnpm", tools)
                             THEN <<print_warning(<<"pnpm not found, will use npm for frontend build">>)>>
                             ELSE <<>>)
                         \o <<print_success(<<"Prerequisites check passed">>)>>
               /\ pc' = AfterPrerequisites(arg)
               /\ UNCHANGED exitCode
    /\ calls' = Append(calls, Call("check_prerequisites", "none", <<>>, 0))
    /\ UNCHANGED cwd
    /\ UNCHANGED files
    /\ UNCHANGED env

(***************************************************************************)
(* `set -e`, line 2: a command that ends with a non-zero status ends the   *)
(* script with that status; otherwise the script goes on at `next`.        *)
(***************************************************************************)
\* variant of ErrExit: the script without `set -e`
ErrExit_Off(st, next) ==
    /\ pc' = next
    /\ UNCHANGED exitCode

ErrExit(st, next) ==
    IF st # 0
    THEN Exit(st)
    ELSE /\ pc' = next
         /\ UNCHANGED exitCode

\* variant of PipelineStatus: the status of the first command of the pipeline
PipelineStatus_First(awsSt, loginSt) == awsSt

\* status of `aws ... | docker login ...` (lines 93, 122): pipefail is not
\* set, so it is the status of the last command of the pipeline
PipelineStatus(awsSt, loginSt) == loginSt

(***************************************************************************)
(* display_image_info, lines 147-152 (called from main, line 162).         *)
(***************************************************************************)
display_image_info ==
    /\ pc = "display_image_info"
    /\ out' = out \o << print_status(<<"Image information:">>),
                        Echo(<<"Frontend: ", RemoteRef(FRONTEND_IMAGE_NAME)>>),
                        Echo(<<"Backend: ", RemoteRef(BACKEND_IMAGE_NAME)>>),
                        Echo(<<"Region: ", AWS_REGION>>) >>
    /\ pc' = "fe_enter"
    /\ UNCHANGED <<cwd, calls, exitCode>>
    /\ UNCHANGED files
    /\ UNCHANGED env

(***************************************************************************)
(* build_and_upload_frontend, lines 62-108.                                *)
(***************************************************************************)
\* where the caller of build_and_upload_frontend goes on: lines 168, 183
AfterFrontend(a) ==
    IF a = FrontendOnly THEN "rmi1" ELSE "be_enter"

\* lines 63-71: cd frontend, back up .env.local if it exists
FrontendBackup ==
    /\ pc = "fe_enter"
    /\ cwd' = "frontend"
    /\ IF envLocal # Absent THEN
            /\ envBackup' = envLocal
            /\ calls' = Append(calls, Call("cp", "frontend", <<".env.local", ".env.local.backup">>, 0))
            /\ out' = out \o << print_status(<<"Building and uploading frontend image...">>),
                                print_status(<<"Backed up .env.local">>) >>
       ELSE
            /\ out' = out \o << print_status(<<"Building and uploading frontend image...">>) >>
            /\ UNCHANGED <<envBackup, calls>>
    /\ pc' = "fe_build"
    /\ UNCHANGED <<envLocal, exitCode>>
    /\ UNCHANGED env

\* variant of FrontendBuild: a build that fails is run a second time
FrontendBuild_RetryOnce ==
    /\ pc = "fe_build"
    /\ \E st \in DockerStatuses :
          /\ calls' = Append(calls, Call("build", "frontend", <<LocalRef(FRONTEND_IMAGE_NAME)>>, st))
          /\ IF st # 0 /\ \A i \in 1..Len(calls) : calls[i].cmd # "build"
             THEN UNCHANGED <<pc, exitCode>>
             ELSE ErrExit(st, "fe_login")
    /\ out' = out \o <<print_status(<<"Building frontend Docker image...">>)>>
    /\ UNCHANGED cwd
    /\ UNCHANGED files
    /\ UNCHANGED env

\* lines 88-89: docker buildx build
FrontendBuild ==
    /\ pc = "fe_build"
    /\ \E st \in DockerStatuses :
          /\ calls' = Append(calls, Call("build", "frontend", <<LocalRef(FRONTEND_IMAGE_NAME)>>, st))
          /\ ErrExit(st, "fe_login")
    /\ out' = out \o <<print_status(<<"Building frontend Docker image...">>)>>
    /\ UNCHANGED cwd
    /\ UNCHANGED files
    /\ UNCHANGED env

\* lines 92-93: aws ecr get-login-password | docker login
FrontendLogin ==
    /\ pc = "fe_login"
    /\ \E a \in AwsStatuses, l \in DockerStatuses :
          /\ calls' = calls \o << Call("get-login-password", "frontend", <<AWS_REGION>>, a),
                                  Call("login", "frontend", <<ECR_URL>>, l) >>
          /\ ErrExit(PipelineStatus(a, l), "fe_tag")
    /\ out' = out \o <<print_status(<<"Logging in to ECR...">>)>>
    /\ UNCHANGED cwd
    /\ UNCHANGED files
    /\ UNCHANGED env

\* lines 96-97: docker tag
FrontendTag ==
    /\ pc = "fe_tag"
    /\ \E st \in DockerStatuses :
          /\ calls' = Append(calls, Call("tag", "frontend",
                                         <<LocalRef(FRONTEND_IMAGE_NAME), RemoteRef(FRONTEND_IMAGE_NAME)>>, st))
          /\ ErrExit(st, "fe_push")
    /\ out' = out \o <<print_status(<<"Tagging and pushing frontend image...">>)>>
    /\ UNCHANGED cwd
    /\ UNCHANGED files
    /\ UNCHANGED env

\* line 98: docker push
FrontendPush ==
    /\ pc = "fe_push"
    /\ \E st \in DockerStatuses :
          /\ calls' = Append(calls, Call("push", "frontend", <<RemoteRef(FRONTEND_IMAGE_NAME)>>, st))
          /\ ErrExit(st, "fe_restore")
    /\ UNCHANGED <<cwd, out>>
    /\ UNCHANGED files
    /\ UNCHANGED env

\* lines 100-107: move the backup back if there is one, cd .., report
FrontendRestore ==
    /\ pc = "fe_restore"
    /\ IF envBackup # Absent THEN
            /\ envLocal' = envBackup
            /\ envBackup' = Absent
            /\ calls' = Append(calls, Call("mv", "frontend", <<".env.local.backup", ".env.local">>, 0))
            /\ out' = out \o << print_status(<<"Restored .env.local">>),
                                print_success(<<"Frontend image uploaded successfully">>) >>
       ELSE
            /\ out' = out \o << print_success(<<"Frontend image uploaded successfully">>) >>
            /\ UNCHANGED <<envLocal, envBackup, calls>>
    /\ cwd' = "root"
    /\ pc' = AfterFrontend(arg)
    /\ UNCHANGED exitCode
    /\ UNCHANGED env

(***************************************************************************)
(* build_and_upload_backend, lines 111-131.                                *)
(***************************************************************************)
\* lines 112-114: cd backend
BackendEnter ==
    /\ pc = "be_enter"
    /\ cwd' = "backend"
    /\ out' = out \o <<print_status(<<"Building and uploading backend image...">>)>>
    /\ pc' = "be_build"
    /\ UNCHANGED <<calls, exitCode>>
    /\ UNCHANGED files
    /\ UNCHANGED env

\* variant of BackendBuild: the build's failure is ignored
BackendBuild_OrTrue ==
    /\ pc = "be_build"
    /\ \E st \in DockerStatuses :
          /\ calls' = Append(calls, Call("build", "backend", <<LocalRef(BACKEND_IMAGE_NAME)>>, st))
          /\ ErrExit(0, "be_login")
    /\ out' = out \o <<print_status(<<"Building backend Docker image...">>)>>
    /\ UNCHANGED cwd
    /\ UNCHANGED files
    /\ UNCHANGED env

\* lines 117-118: docker buildx build
BackendBuild ==
    /\ pc = "be_build"
    /\ \E st \in DockerStatuses :
          /\ calls' = Append(calls, Call("build", "backend", <<LocalRef(BACKEND_IMAGE_NAME)>>, st))
          /\ ErrExit(st, "be_login")
    /\ out' = out \o <<print_status(<<"Building backend Docker image...">>)>>
    /\ UNCHANGED cwd
    /\ UNCHANGED files
    /\ UNCHANGED env

\* lines 121-122: aws ecr get-login-password | docker login
BackendLogin ==
    /\ pc = "be_login"
    /\ \E a \in AwsStatuses, l \in DockerStatuses :
          /\ calls' = calls \o << Call("get-login-password", "backend", <<AWS_REGION>>, a),
                                  Call("login", "backend", <<ECR_URL>>, l) >>
          /\ ErrExit(PipelineStatus(a, l), "be_tag")
    /\ out' = out \o <<print_status(<<"Ensuring ECR login...">>)>>
    /\ UNCHANGED cwd
    /\ UNCHANGED files
    /\ UNCHANGED env

\* lines 125-126: docker tag
BackendTag ==
    /\ pc = "be_tag"
    /\ \E st \in DockerStatuses :
          /\ calls' = Append(calls, Call("tag", "backend",
                                         <<LocalRef(BACKEND_IMAGE_NAME), RemoteRef(BACKEND_IMAGE_NAME)>>, st))
          /\ ErrExit(st, "be_push")
    /\ out' = out \o <<print_status(<<"Tagging and pushing backend image...">>)>>
    /\ UNCHANGED cwd
    /\ UNCHANGED files
    /\ UNCHANGED env

\* line 127: docker push
BackendPush ==
    /\ pc = "be_push"
    /\ \E st \in DockerStatuses :
          /\ calls' = Append(calls, Call("push", "backend", <<RemoteRef(BACKEND_IMAGE_NAME)>>, st))
          /\ ErrExit(st, "be_leave")
    /\ UNCHANGED <<cwd, out>>
    /\ UNCHANGED files
    /\ UNCHANGED env

\* lines 129-130: cd .., report
BackendLeave ==
    /\ pc = "be_leave"
    /\ cwd' = "root"
    /\ out' = out \o <<print_success(<<"Backend image uploaded successfully">>)>>
    /\ pc' = "rmi1"
    /\ UNCHANGED <<calls, exitCode>>
    /\ UNCHANGED files
    /\ UNCHANGED env

(***************************************************************************)
(* cleanup_local_images, lines 134-144.                                    *)
(***************************************************************************)
\* variant of CleanupRefs: the images of a component together
CleanupRefs_ByComponent ==
    << LocalRef(FRONTEND_IMAGE_NAME), RemoteRef(FRONTEND_IMAGE_NAME),
       LocalRef(BACKEND_IMAGE_NAME), RemoteRef(BACKEND_IMAGE_NAME) >>

\* the image removed by the i-th `docker rmi`, lines 138-141
CleanupRefs ==
    << LocalRef(FRONTEND_IMAGE_NAME), LocalRef(BACKEND_IMAGE_NAME),
       RemoteRef(FRONTEND_IMAGE_NAME), RemoteRef(BACKEND_IMAGE_NAME) >>

RmiPc == <<"rmi1", "rmi2", "rmi3", "rmi4">>

\* variant of OrTrue: the removal without `|| true`
OrTrue_Missing(st) == st

\* status of `docker rmi ... 2>/dev/null || true`
OrTrue(st) == 0

\* the i-th removal; the first prints line 135, the last line 143
Rmi(i) ==
    /\ pc = RmiPc[i]
    /\ \E st \in RmiStatuses :
          /\ calls' = Append(calls, Call("rmi", "none", <<CleanupRefs[i]>>, st))
          /\ ErrExit(OrTrue(st), IF i < Len(RmiPc) THEN RmiPc[i+1] ELSE "finish")
    /\ out' = out \o (IF i = 1 THEN <<print_status(<<"Cleaning up local images...">>)>> ELSE <<>>)
                  \o (IF i = Len(RmiPc) THEN <<print_success(<<"Local images cleaned up">>)>> ELSE <<>>)
    /\ UNCHANGED cwd
    /\ UNCHANGED files
    /\ UNCHANGED env

(***************************************************************************)
(* The last lines of the caller: 173-174, 184, 191.  The script then ends  *)
(* with the status of its last command, an echo.                           *)
(***************************************************************************)
FinalMessages(a) ==
    IF a = FrontendOnly THEN << print_success(<<"Frontend image uploaded successfully!">>) >>
    ELSE IF a = BackendOnly THEN << print_success(<<"Backend image uploaded successfully!">>) >>
    ELSE << print_success(<<"All images uploaded successfully!">>),
            print_status(<<"You can now use these images in your deployment.">>) >>

Finish ==
    /\ pc = "finish"
    /\ out' = out \o FinalMessages(arg)
    /\ Exit(0)
    /\ UNCHANGED <<cwd, calls>>
    /\ UNCHANGED files
    /\ UNCHANGED env

(***************************************************************************)
(* The script is started again, on the files the last run left behind;     *)
(* before that the operator may have edited or removed .env.local.         *)
(***************************************************************************)
NextRun ==
    /\ pc = "done"
    /\ run < MaxRuns
    /\ pc' = "dispatch"
    /\ arg' \in Args
    /\ tools' \in SUBSET Tools
    /\ cwd' = "root"
    /\ envLocal' \in FileStates
    /\ UNCHANGED envBackup
    /\ calls' = <<>>
    /\ out' = <<>>
    /\ exitCode' = -1
    /\ run' = run + 1
    /\ startEnv' = envLocal'
    /\ startBackup' = envBackup

Next ==
    \/ Dispatch
    \/ check_prerequisites
    \/ display_image_info
    \/ FrontendBackup
    \/ FrontendBuild
    \/ FrontendLogin
    \/ FrontendTag
    \/ FrontendPush
    \/ FrontendRestore
    \/ BackendEnter
    \/ BackendBuild
    \/ BackendLogin
    \/ BackendTag
    \/ BackendPush
    \/ BackendLeave
    \/ \E i \in 1..Len(RmiPc) : Rmi(i)
    \/ Finish
    \/ NextRun

Spec == Init /\ [][Next]_vars
(***************************************************************************)
(* Vocabulary of the properties.                                           *)
(***************************************************************************)
Components == {"frontend", "backend"}

\* the steps of a component workflow that use docker or aws
ReleaseCmds == {"build", "get-login-password", "login", "tag", "push"}

\* the four steps the specification names
StepCmds == {"build", "login", "tag", "push"}

Executed(cmd, comp) ==
    \E i \in 1..Len(calls) : calls[i].cmd = cmd /\ calls[i].comp = comp

Succeeded(cmd, comp) ==
    \E i \in 1..Len(calls) : calls[i].cmd = cmd /\ calls[i].comp = comp /\ calls[i].status = 0

Failed(cmd, comp) ==
    \E i \in 1..Len(calls) : calls[i].cmd = cmd /\ calls[i].comp = comp /\ calls[i].status # 0

\* no build, login, tag or push of any component has been executed
NoReleaseStep ==
    \A i \in 1..Len(calls) : calls[i].cmd \notin ReleaseCmds

PrerequisitesMet == {"docker", "aws"} \subseteq tools

Requested(a) ==
    IF a = FrontendOnly THEN {"frontend"}
    ELSE IF a = BackendOnly THEN {"backend"}
    ELSE IF a = NoArg THEN Components
    ELSE {}

WorkflowSucceeded(comp) == \A cmd \in StepCmds : Succeeded(cmd, comp)

AllRequestedSucceeded == \A comp \in Requested(arg) : WorkflowSucceeded(comp)

\* the images `docker rmi` was run on, in order
RECURSIVE RemovedFrom(_)
RemovedFrom(cs) ==
    IF cs = <<>> THEN <<>>
    ELSE IF Head(cs).cmd = "rmi" THEN <<Head(cs).args[1]>> \o RemovedFrom(Tail(cs))
    ELSE RemovedFrom(Tail(cs))

Removed == RemovedFrom(calls)

EndsWith(s, t) ==
    /\ Len(t) <= Len(s)
    /\ SubSeq(s, Len(s) - Len(t) + 1, Len(s)) = t

\* the frontend workflow was entered in this run and is over
FrontendEnded ==
    /\ Executed("build", "frontend")
    /\ pc \notin {"fe_build", "fe_login", "fe_tag", "fe_push", "fe_restore"}

(***************************************************************************)
(* C1.  In every release mode, when docker or aws is missing, no build,    *)
(* registry login, tag or push is executed in the run: the script never    *)
(* gets past the prerequisite check, and it ends with a non-zero status.   *)
(***************************************************************************)
C1_MissingToolStopsRun ==
    (arg \in ReleaseArgs /\ ~PrerequisitesMet) =>
        /\ NoReleaseStep
        /\ pc \in {"dispatch", "check_prerequisites", "done"}
        /\ pc = "done" => exitCode # 0 /\ exitCode # -1

C1_Witness ==
    /\ pc = "done"
    /\ arg = NoArg
    /\ "docker" \in tools
    /\ "aws" \notin tools
    /\ Executed("check_prerequisites", "none")

(***************************************************************************)
(* C2.  When the frontend workflow of a run has ended, frontend/.env.local *)
(* is in the state it had when the run started (same content, or absent),  *)
(* whatever the steps of the run did and whatever runs came before.        *)
(***************************************************************************)
C2_EnvRoundTrip ==
    FrontendEnded => envLocal = startEnv

(***************************************************************************)
(* C3.  When the script has backed up .env.local in a run, it has restored *)
(* it by the time the run terminates, also when a step after the backup    *)
(* failed.                                                                 *)
(***************************************************************************)
C3_RestoreOnEveryExit ==
    (pc = "done" /\ Executed("cp", "frontend")) => Executed("mv", "frontend")

(***************************************************************************)
(* C4.  A run without argument whose prerequisites are met has attempted   *)
(* the backend workflow by the time it terminates, whatever happened to    *)
(* the steps of the frontend workflow: the backend build has been run.     *)
(***************************************************************************)
C4_BackendAttemptedAfterFrontend ==
    (pc = "done" /\ arg = NoArg /\ PrerequisitesMet) =>
        /\ Executed("build", "frontend")
        /\ Executed("build", "backend")

(***************************************************************************)
(* C5.  A release run ends with status 0 exactly when the prerequisite     *)
(* check passed and every requested workflow had its build, login, tag and *)
(* push succeed; otherwise with a non-zero status.  The login step is the  *)
(* registry login, `docker login`, whose status is the pipeline's.         *)
(***************************************************************************)
C5_ExitCodeReflectsSuccess ==
    (pc = "done" /\ arg \in ReleaseArgs) =>
        /\ exitCode # -1
        /\ exitCode = 0 <=> (PrerequisitesMet /\ AllRequestedSucceeded)

C5_Witness ==
    /\ pc = "done"
    /\ arg = NoArg
    /\ exitCode = 125
    /\ WorkflowSucceeded("frontend")
    /\ Failed("push", "backend")

(***************************************************************************)
(* C6.  For each component, once its image build has failed, neither the   *)
(* registry login (with its credential fetch) nor the tag nor the push of  *)
(* that component is executed in the run.                                  *)
(***************************************************************************)
C6_BuildFailureShortCircuits ==
    \A comp \in Components :
        Failed("build", comp) =>
            \A cmd \in ReleaseCmds \ {"build"} : ~Executed(cmd, comp)

C6_Witness ==
    /\ pc = "done"
    /\ arg = NoArg
    /\ WorkflowSucceeded("frontend")
    /\ Failed("build", "backend")

(***************************************************************************)
(* C7.  Once the cleanup has started, all four removals are attempted      *)
(* whichever of them fail, and a run whose requested workflows all         *)
(* succeeded ends with its success message and status 0.                   *)
(***************************************************************************)
C7_CleanupBestEffort ==
    /\ (pc \in {"finish", "done"} /\ Removed # <<>>) => Removed = CleanupRefs
    /\ (pc = "done" /\ arg \in ReleaseArgs /\ PrerequisitesMet /\ AllRequestedSucceeded) =>
            /\ Removed = CleanupRefs
            /\ exitCode = 0
            /\ EndsWith(out, FinalMessages(arg))

C7_Witness ==
    /\ pc = "done"
    /\ arg = BackendOnly
    /\ exitCode = 0
    /\ Len(calls) >= 4
    /\ \A i \in (Len(calls) - 3)..Len(calls) : calls[i].cmd = "rmi" /\ calls[i].status # 0

(***************************************************************************)
(* C8.  A run with --help or -h prints the usage text and ends with status *)
(* 0; it runs no prerequisite check and no docker or aws command and       *)
(* leaves .env.local and its backup as they were.                          *)
(***************************************************************************)
C8_HelpHasNoEffect ==
    (arg \in {HelpLong, HelpShort} /\ pc # "dispatch") =>
        /\ pc = "done"
        /\ exitCode = 0
        /\ out = UsageText
        /\ calls = <<>>
        /\ envLocal = startEnv
        /\ envBackup = startBackup

C8_Witness ==
    /\ pc = "done"
    /\ arg = HelpShort
    /\ envBackup # Absent
    /\ exitCode = 0

(***************************************************************************)
(* C9.  A run whose first argument is none of --frontend-only,             *)
(* --backend-only, --help, -h and the empty string prints a line that      *)
(* contains the argument, ends with status 1 and runs no prerequisite      *)
(* check and no docker or aws command.                                     *)
(***************************************************************************)
C9_UnknownArgumentDiagnosed ==
    (arg \notin {FrontendOnly, BackendOnly, HelpLong, HelpShort, NoArg} /\ pc # "dispatch") =>
        /\ pc = "done"
        /\ exitCode = 1
        /\ calls = <<>>
        /\ \E i \in 1..Len(out) : Contains(out[i], arg)

(***************************************************************************)
(* C10.  A --frontend-only run executes no step of the backend             *)
(* workflow and a --backend-only run no step of the frontend workflow, the *)
(* backup and the restore of .env.local included; a --frontend-only run    *)
(* whose build fails ends with status 1.                                   *)
(***************************************************************************)
C10_SelectiveExecution_Exit1 ==
    /\ arg = FrontendOnly => \A i \in 1..Len(calls) : calls[i].comp # "backend"
    /\ arg = BackendOnly =>
            /\ \A i \in 1..Len(calls) : calls[i].comp # "frontend"
            /\ envLocal = startEnv /\ envBackup = startBackup
    /\ (arg = FrontendOnly /\ pc = "done" /\ Failed("build", "frontend")) => exitCode = 1

(***************************************************************************)
(* Vocabulary of the properties on the order of the calls.                 *)
(***************************************************************************)
\* the positions in calls of the runs of cmd for comp
Positions(cmd, comp) ==
    {i \in 1..Len(calls) : calls[i].cmd = cmd /\ calls[i].comp = comp}

\* the positions in calls of the successful runs of cmd for comp
SuccessPositions(cmd, comp) ==
    {i \in Positions(cmd, comp) : calls[i].status = 0}

\* the references the configuration of lines 5-8 yields, written out
ExpectedLocal(comp) ==
    IF comp = "frontend" THEN "agents/frontend:latest" ELSE "agents/backend:latest"

ExpectedRemote(comp) ==
    IF comp = "frontend"
    THEN "654553612832.dkr.ecr.eu-central-1.amazonaws.com/agents/frontend:latest"
    ELSE "654553612832.dkr.ecr.eu-central-1.amazonaws.com/agents/backend:latest"

(***************************************************************************)
(* C11.  Every push of a component pushes registryUrl/imageName:imageTag   *)
(* as the configuration gives it, the call just before it tagged the local *)
(* image imageName:imageTag with that same reference, and the references   *)
(* of the two components differ; a run without argument that ends with     *)
(* status 0 has tagged and pushed both references.                         *)
(***************************************************************************)
C11_PushedReference ==
    /\ \A i \in 1..Len(calls) :
           calls[i].cmd = "push" =>
               /\ calls[i].comp \in Components
               /\ calls[i].args = <<ExpectedRemote(calls[i].comp)>>
               /\ i > 1
               /\ calls[i-1] = Call("tag", calls[i].comp,
                                    <<ExpectedLocal(calls[i].comp), calls[i].args[1]>>, 0)
    /\ \A i, j \in 1..Len(calls) :
           (calls[i].cmd = "push" /\ calls[j].cmd = "push" /\ calls[i].comp # calls[j].comp)
               => calls[i].args # calls[j].args
    /\ (pc = "done" /\ arg = NoArg /\ exitCode = 0) =>
           \A comp \in Components :
               /\ Call("tag", comp, <<ExpectedLocal(comp), ExpectedRemote(comp)>>, 0)
                      \in {calls[i] : i \in 1..Len(calls)}
               /\ Call("push", comp, <<ExpectedRemote(comp)>>, 0)
                      \in {calls[i] : i \in 1..Len(calls)}

C11_Witness ==
    /\ pc = "done"
    /\ arg = NoArg
    /\ exitCode = 0
    /\ SuccessPositions("push", "frontend") # {}
    /\ SuccessPositions("push", "backend") # {}

(***************************************************************************)
(* C12.  For each component, when the authentication has failed, in the    *)
(* credential fetch (aws ecr get-login-password) or in the registry login  *)
(* (docker login), the tag and the push of that component are not          *)
(* executed.                                                               *)
(***************************************************************************)
C12_AuthFailureShortCircuits ==
    \A comp \in Components :
        (Failed("get-login-password", comp) \/ Failed("login", comp)) =>
            /\ ~Executed("tag", comp)
            /\ ~Executed("push", comp)

(***************************************************************************)
(* C13.  A push of a component comes after a successful build, then a      *)
(* successful registry login, then a successful tag of that component in   *)
(* the same run; and in a run without argument every call of the frontend  *)
(* workflow comes before every call of the backend workflow, which starts  *)
(* only after the frontend push has succeeded.                             *)
(***************************************************************************)
C13_StepOrder ==
    /\ \A comp \in Components : \A p \in Positions("push", comp) :
           \E b \in SuccessPositions("build", comp) :
           \E l \in SuccessPositions("login", comp) :
           \E t \in SuccessPositions("tag", comp) :
               b < l /\ l < t /\ t < p
    /\ \A i, j \in 1..Len(calls) :
           (calls[i].comp = "frontend" /\ calls[j].comp = "backend") => i < j
    /\ (arg = NoArg /\ pc \in {"be_enter", "be_build", "be_login", "be_tag", "be_push", "be_leave"}) =>
           /\ SuccessPositions("push", "frontend") # {}
           /\ cwd # "frontend"

C13_Witness ==
    /\ arg = NoArg
    /\ Positions("push", "backend") # {}
    /\ Positions("push", "frontend") # {}
    /\ pc = "done"
    /\ exitCode = 1

(***************************************************************************)
(* C14.  The restore of .env.local is executed after the build             *)
(* and before the registry login, the tag and the push of the frontend     *)
(* workflow begin, so no snapshot is held during them; the backend         *)
(* workflow neither captures nor restores a snapshot.                      *)
(***************************************************************************)
C14_SnapshotScopeIsBuildOnly ==
    /\ (Executed("cp", "frontend") /\ Executed("get-login-password", "frontend")) =>
           \E m \in Positions("mv", "frontend") :
               \A l \in Positions("get-login-password", "frontend") : m < l
    /\ \A i, j \in 1..Len(calls) :
           (calls[i].cmd \in {"cp", "mv"} /\ calls[j].comp = "backend") => i < j
    /\ arg = BackendOnly => \A i \in 1..Len(calls) : calls[i].cmd \notin {"cp", "mv"}

(***************************************************************************)
(* C15.  In every release mode whose prerequisites are met, the cleanup    *)
(* has run by the time the run terminates, also when a requested workflow  *)
(* failed, and success is reported only if every requested workflow        *)
(* succeeded.                                                              *)
(***************************************************************************)
C15_CleanupAfterAttempts ==
    (pc = "done" /\ arg \in ReleaseArgs /\ PrerequisitesMet) =>
        /\ Removed = CleanupRefs
        /\ EndsWith(out, FinalMessages(arg)) => AllRequestedSucceeded

(***************************************************************************)
(* C16.  In every release mode the prerequisite check is executed exactly  *)
(* once in a run, before every build; when only pnpm is missing the check  *)
(* prints a warning and the run goes on to its first build.                *)
(***************************************************************************)
C16_PrerequisitesOnce ==
    /\ (arg \in ReleaseArgs /\ pc \notin {"dispatch", "check_prerequisites"}) =>
           /\ Positions("check_prerequisites", "none") = {1}
    /\ \A i \in 1..Len(calls) :
           calls[i].cmd = "build" => \E c \in Positions("check_prerequisites", "none") : c < i
    /\ (arg \in ReleaseArgs /\ PrerequisitesMet /\ "pnpm" \notin tools
          /\ pc \notin {"dispatch", "check_prerequisites"}) =>
           /\ print_warning(<<"pnpm not found, will use npm for frontend build">>)
                  \in {out[i] : i \in 1..Len(out)}
           /\ pc = "done" => \E i \in 1..Len(calls) : calls[i].cmd = "build"

C16_Witness ==
    /\ pc = "done"
    /\ arg = BackendOnly
    /\ tools = {"docker", "aws"}
    /\ Executed("build", "backend")
    /\ exitCode = 0

(***************************************************************************)
(* C17.  In a run, the build, the tag and the push of a component are each *)
(* executed at most once, whatever their outcome.                          *)
(***************************************************************************)
C17_NoRetry ==
    \A comp \in Components : \A cmd \in {"build", "tag", "push"} :
        Cardinality(Positions(cmd, comp)) <= 1

C17_Witness ==
    /\ pc = "done"
    /\ arg = NoArg
    /\ Failed("build", "frontend")
    /\ exitCode = 1

(***************************************************************************)
(* C18.  The cleanup removes, in this order, the frontend local image, the *)
(* backend local image, the frontend remote-tagged image and the backend   *)
(* remote-tagged image, in every mode: when it is over all four removals   *)
(* have been attempted, also for the component the run did not build.      *)
(***************************************************************************)
C18_CleanupRemovesAllFour ==
    LET all == << ExpectedLocal("frontend"), ExpectedLocal("backend"),
                  ExpectedRemote("frontend"), ExpectedRemote("backend") >>
    IN /\ \A i \in 1..4 : pc = RmiPc[i] => Removed = SubSeq(all, 1, i - 1)
       /\ pc = "finish" => Removed = all
       /\ (pc = "done" /\ Removed # <<>>) => Removed = all
       /\ pc \notin {"rmi1", "rmi2", "rmi3", "rmi4", "finish", "done"} => Removed = <<>>

C18_Witness ==
    /\ pc = "done"
    /\ arg = FrontendOnly
    /\ ~Executed("build", "backend")
    /\ Len(Removed) = 4
    /\ Removed[2] = ExpectedLocal("backend")
    /\ Removed[4] = ExpectedRemote("backend")

(***************************************************************************)
(* C19.  When a run terminates, frontend/.env.local.backup exists only if  *)
(* it existed when the run started.                                        *)
(***************************************************************************)
C19_BackupIsTransient ==
    (pc = "done" /\ envBackup # Absent) => startBackup # Absent

=============================================================================
